---- MODULE Spec2Model ----
(***************************************************************************)
(* Role-gated authorization and agent-application approval workflow, and   *)
(* the client-side session/role context.                                   *)
(*                                                                         *)
(* Two state machines share this module.                                   *)
(*   Spec      the backing store (user_roles, agent_applications and their *)
(*             row-level-security policies) driven by the admin dashboard  *)
(*             handlers of src/src/pages/Admin.tsx;                        *)
(*   AuthSpec  the AuthProvider of src/unnamed/part_000 driven by the      *)
(*             authentication subsystem's notifications; AuthFairSpec adds *)
(*             that deferred callbacks run and role fetches complete;      *)
(*             AuthRoleSpec lets an admin revoke roles meanwhile;          *)
(*   PolicySpec  the three tables reached directly through the query API,  *)
(*             each statement filtered by the row-level-security policies, *)
(*             with sign-up and the dashboard's handleRegisterAgent.       *)
(***************************************************************************)
EXTENDS Integers, FiniteSets, Sequences, TLC

VARIABLES
    user_roles,          \* table public.user_roles: a set of rows
    agent_applications,  \* table public.agent_applications: a set of rows
    nextRoleId,          \* next primary key of user_roles
    nextAppId,           \* next primary key of agent_applications
    now,                 \* the wall clock read by new Date()
    applications,        \* Admin.tsx: each dashboard's `applications` state
    call,                \* Admin.tsx: each dashboard's running handleApplicationAction
    user,                \* AuthProvider: useState user
    session,             \* AuthProvider: useState session
    role,                \* AuthProvider: useState role
    loading,             \* AuthProvider: useState loading
    phase,               \* AuthProvider's effect: "unmounted", "mounted", "torn"
    authSession,         \* the authentication subsystem's current session
    authEvents,          \* sign-ins, sign-outs and refreshes so far
    notifications,       \* session-change notifications not yet delivered
    getSession,          \* the initial session query: its pc and its result
    timers,              \* setTimeout(..., 0) callbacks not yet run
    fetches,             \* role fetches in flight
    fetchSeq,            \* role fetches issued so far
    roleWriter,          \* history: the fetch that wrote role last (0: none)
    latestDone,          \* history: the completed fetch issued last, and its result
    staleOut,            \* history: the last notification was a sign-out
                         \* handled while a role fetch was in flight
    fetched,             \* history: what the rpc answered to the fetch that
                         \* wrote role last
    auth_users,          \* table auth.users: the principals that exist
    profiles,            \* table public.profiles: a set of rows
    nextProfileId,       \* next primary key of profiles
    lastCall,            \* the direct statement just made, if the last step was
                         \* one, with the rows it returned or changed
    reg                  \* Admin.tsx: each dashboard's running handleRegisterAgent

storeVars == <<user_roles, agent_applications, nextRoleId, nextAppId, now,
               applications, call>>

authVars == <<user, session, role, loading, phase, authSession, authEvents,
              notifications, getSession, timers, fetches, fetchSeq,
              roleWriter, latestDone, staleOut, fetched>>

apiVars == <<auth_users, profiles, nextProfileId, lastCall, reg>>

vars == <<storeVars, authVars, apiVars>>

NULL == "null"

\* ------------------------------------------------------------------ bounds
MaxApps == 1      \* applications submitted in one behaviour
MaxTime == 2      \* values the wall clock takes

\* ------------------------------------------------------------- principals
\* A and C hold only the role user; B and D also hold admin.
Principals == {"A", "B", "C", "D"}
\* The principals that submit applications, and those that open the dashboard
\* (A, who is no admin, sees there the applications it submitted itself).
Applicants == {"A"}
Dashboards == {"A", "B", "D"}

\* ------------------------------------------------------------- Role Store
has_role(_user_id, _role) ==
    \E r \in user_roles : r.user_id = _user_id /\ r.role = _role

\* ------------------------------------------------------------ RLS policies
\* auth.uid() is the first parameter of every policy.

\* A plausible slip: the read policy of profiles copied to agent_applications.
UsersCanViewOwnApplications_All(uid, row) == TRUE

UsersCanViewOwnApplications(uid, row) == uid = row.user_id
AdminsCanViewAllApplications(uid, row) == has_role(uid, "admin")
UsersCanCreateApplications(uid, row) == uid = row.user_id
\* A plausible slip: the update policy also lets the submitter through.
AdminsCanUpdateApplications_OrOwner(uid, row) ==
    has_role(uid, "admin") \/ uid = row.user_id

AdminsCanUpdateApplications(uid, row) == has_role(uid, "admin")
\* A plausible slip: everyone may insert assignments for itself.
AdminsCanInsertRoles_OrSelf(uid, row) == has_role(uid, "admin") \/ uid = row.user_id

AdminsCanInsertRoles(uid, row) == has_role(uid, "admin")

\* Permissive policies of one command are OR-ed; no policy means no access.
CanSelectApplication(uid, row) ==
    UsersCanViewOwnApplications(uid, row) \/ AdminsCanViewAllApplications(uid, row)

CanUpdateApplication(uid, row) == AdminsCanUpdateApplications(uid, row)

CanInsertRole(uid, row) == AdminsCanInsertRoles(uid, row)

\* ----------------------------------------------------------------- tables
\* agent_applications row as created by the column defaults: status 'pending',
\* reviewed_by and reviewed_at NULL (0 is the NULL timestamp).
NewApplication(id, uid) ==
    [id |-> id, user_id |-> uid, status |-> "pending",
     reviewed_by |-> NULL, reviewed_at |-> 0]

NoRow == [id |-> 0, user_id |-> NULL, status |-> NULL,
          reviewed_by |-> NULL, reviewed_at |-> 0]

RowOfApplication(id) ==
    IF \E r \in agent_applications : r.id = id
    THEN CHOOSE r \in agent_applications : r.id = id
    ELSE NoRow

\* The columns the dashboard keeps of a fetched row (interface AgentApplication).
ListedApplication(row) ==
    [id |-> row.id, user_id |-> row.user_id, status |-> row.status]

\* UPDATE agent_applications SET ... WHERE id = applicationId, as uid: the rows
\* the USING policy hides are skipped silently; the statement reports no error.
UpdateApplications(uid, applicationId, action, at) ==
    { IF r.id = applicationId /\ CanUpdateApplication(uid, r)
      THEN [r EXCEPT !.status = action, !.reviewed_by = uid, !.reviewed_at = at]
      ELSE r : r \in agent_applications }

\* A plausible slip: the table lacks UNIQUE (user_id, role).
InsertRoleError_NoUnique(uid, userId, _role, netFail) ==
    IF netFail THEN "network"
    ELSE IF ~CanInsertRole(uid, [user_id |-> userId, role |-> _role]) THEN "rls"
    ELSE IF userId \notin auth_users THEN "foreign key"
    ELSE "none"

\* INSERT INTO user_roles (user_id, role, approved_by), as uid: the error it
\* returns. The WITH CHECK policy is evaluated before the unique index.
InsertRoleError(uid, userId, _role, netFail) ==
    IF netFail THEN "network"
    ELSE IF ~CanInsertRole(uid, [user_id |-> userId, role |-> _role]) THEN "rls"
    ELSE IF has_role(userId, _role) THEN "duplicate"
    ELSE IF userId \notin auth_users THEN "foreign key"
    ELSE "none"

\* A plausible slip: a duplicate key is thrown like every other error.
MessageIncludesDuplicate_Never(err) == FALSE

\* A plausible slip: every error of the insert is swallowed.
MessageIncludesDuplicate_Always(err) == TRUE

\* roleError.message.includes('duplicate')
MessageIncludesDuplicate(err) == err = "duplicate"

\* --------------------------------------------------------- admin dashboard
IdleCall ==
    [pc |-> "idle", appId |-> 0, userId |-> NULL, action |-> NULL,
     denied |-> FALSE, before |-> NoRow, roleError |-> "none", toast |-> "none"]

\* handle_new_user gave every principal the role user; B and D were made admins.
InitialUserRoles ==
    { [id |-> 1, user_id |-> "A", role |-> "user", approved_by |-> NULL],
      [id |-> 2, user_id |-> "B", role |-> "user", approved_by |-> NULL],
      [id |-> 3, user_id |-> "C", role |-> "user", approved_by |-> NULL],
      [id |-> 4, user_id |-> "D", role |-> "user", approved_by |-> NULL],
      [id |-> 5, user_id |-> "B", role |-> "admin", approved_by |-> NULL],
      [id |-> 6, user_id |-> "D", role |-> "admin", approved_by |-> NULL] }

StoreInit ==
    /\ user_roles = InitialUserRoles
    /\ agent_applications = {}
    /\ nextRoleId = 7
    /\ nextAppId = 1
    /\ now = 1
    /\ applications = [c \in Dashboards |-> {}]
    /\ call = [c \in Dashboards |-> IdleCall]

\* A principal submits an application for itself.
SubmitApplication(p) ==
    /\ p \in auth_users
    /\ nextAppId <= MaxApps
    /\ UsersCanCreateApplications(p, NewApplication(nextAppId, p))
    /\ agent_applications' = agent_applications \cup {NewApplication(nextAppId, p)}
    /\ nextAppId' = nextAppId + 1
    /\ UNCHANGED <<user_roles, nextRoleId, now, applications, call>>
    /\ UNCHANGED <<authVars, apiVars>>

\* fetchApplications: on mount, and as the last call of a successful review.
\* call[c] records one run of the handler and its toast; the run is over (or
\* the page was loaded afresh) once the list has been fetched.
fetchApplications(c, netFail) ==
    /\ call[c].pc \in {"idle", "refetch"}
    /\ applications' =
         IF netFail THEN applications
         ELSE [applications EXCEPT ![c] =
                 { ListedApplication(r) : r \in
                     { x \in agent_applications : CanSelectApplication(c, x) } }]
    /\ call' = [call EXCEPT ![c] = IdleCall]
    /\ UNCHANGED <<user_roles, agent_applications, nextRoleId, nextAppId, now>>
    /\ UNCHANGED <<authVars, apiVars>>

\* handleApplicationAction up to its first await: the status update.
ReviewUpdate(c, app, action, netFail) ==
    /\ call[c].pc = "idle"
    /\ app \in applications[c]
    /\ app.status = "pending"
    /\ now <= MaxTime
    /\ now' = now + 1
    /\ LET started == [IdleCall EXCEPT !.appId = app.id, !.userId = app.user_id,
                                       !.action = action,
                                       !.before = RowOfApplication(app.id)]
           row == RowOfApplication(app.id)
       IN  IF netFail
           THEN /\ agent_applications' = agent_applications
                /\ call' = [call EXCEPT ![c] = [started EXCEPT !.toast = "error"]]
           ELSE /\ agent_applications' = UpdateApplications(c, app.id, action, now)
                /\ call' = [call EXCEPT ![c] =
                     [started EXCEPT
                        !.denied = (row # NoRow /\ ~CanUpdateApplication(c, row)),
                        !.pc = IF action = "approved" THEN "insert" ELSE "refetch",
                        !.toast = IF action = "approved" THEN "none" ELSE "success"]]
    /\ UNCHANGED <<user_roles, nextRoleId, nextAppId, applications>>
    /\ UNCHANGED <<authVars, apiVars>>

\* handleApplicationAction after the update, when action = 'approved': the role grant.
ReviewInsert(c, netFail) ==
    /\ call[c].pc = "insert"
    /\ LET err == InsertRoleError(c, call[c].userId, "agent", netFail)
       IN  /\ IF err = "none"
              THEN /\ user_roles' = user_roles \cup
                        {[id |-> nextRoleId, user_id |-> call[c].userId,
                          role |-> "agent", approved_by |-> c]}
                   /\ nextRoleId' = nextRoleId + 1
              ELSE UNCHANGED <<user_roles, nextRoleId>>
           /\ call' = [call EXCEPT ![c] =
                IF err # "none" /\ ~MessageIncludesDuplicate(err)
                THEN [@ EXCEPT !.pc = "idle", !.roleError = err, !.toast = "error"]
                ELSE [@ EXCEPT !.pc = "refetch", !.roleError = err, !.toast = "success"]]
    /\ UNCHANGED <<agent_applications, nextAppId, now, applications>>
    /\ UNCHANGED <<authVars, apiVars>>

StoreNext ==
    \/ \E p \in Applicants : SubmitApplication(p)
    \/ \E c \in Dashboards, netFail \in BOOLEAN : fetchApplications(c, netFail)
    \/ \E c \in Dashboards, action \in {"approved", "rejected"}, netFail \in BOOLEAN :
         \E app \in applications[c] : ReviewUpdate(c, app, action, netFail)
    \/ \E c \in Dashboards, netFail \in BOOLEAN : ReviewInsert(c, netFail)

\* --------------------------------------------- direct access to the tables
MaxRoleId == 8    \* the last primary key a direct insert into user_roles may take

\* The principal that does not exist yet and signs up.
Newcomers == {"E"}
\* The principals that query the tables directly, and the principals whose
\* rows they name in those queries.
ApiActors == {"A", "B"}
ApiTargets == {"A"}
Roles == {"admin", "agent", "user"}
Names == {"n1", "n2"}

UsersCanViewOwnRoles(uid, row) == uid = row.user_id
\* A plausible slip: the read policy for admins is missing.
AdminsCanViewAllRoles_Never(uid, row) == FALSE

AdminsCanViewAllRoles(uid, row) == has_role(uid, "admin")
AdminsCanUpdateRoles(uid, row) == has_role(uid, "admin")
\* A plausible slip: everyone may delete the assignments it holds.
AdminsCanDeleteRoles_OrOwner(uid, row) == has_role(uid, "admin") \/ uid = row.user_id

AdminsCanDeleteRoles(uid, row) == has_role(uid, "admin")
UsersCanViewAllProfiles(uid, row) == TRUE
UsersCanUpdateOwnProfile(uid, row) == uid = row.user_id
UsersCanInsertOwnProfile(uid, row) == uid = row.user_id

CanSelectRole(uid, row) ==
    UsersCanViewOwnRoles(uid, row) \/ AdminsCanViewAllRoles(uid, row)
CanUpdateRole(uid, row) == AdminsCanUpdateRoles(uid, row)
CanDeleteRole(uid, row) == AdminsCanDeleteRoles(uid, row)
CanInsertApplication(uid, row) == UsersCanCreateApplications(uid, row)
\* A plausible slip: a delete policy for admins, as user_roles has one.
CanDeleteApplication_Admins(uid, row) == has_role(uid, "admin")

\* agent_applications has no FOR DELETE policy.
CanDeleteApplication(uid, row) == FALSE
CanSelectProfile(uid, row) == UsersCanViewAllProfiles(uid, row)
CanUpdateProfile(uid, row) == UsersCanUpdateOwnProfile(uid, row)
CanInsertProfile(uid, row) == UsersCanInsertOwnProfile(uid, row)
\* profiles has no FOR DELETE policy.
CanDeleteProfile(uid, row) == FALSE

NoCall == [actor |-> NULL, table |-> NULL, op |-> NULL, rows |-> {}]

\* A direct statement by actor, and the rows it returned or changed.
Called(actor, table, op, rows) ==
    [actor |-> actor, table |-> table, op |-> op, rows |-> rows]

IdleReg == [pc |-> "idle", newUser |-> NULL, uid |-> NULL,
            roleError |-> "none", toast |-> "none"]

\* The profile handle_new_user gave each principal that exists at the start.
InitialProfiles ==
    { [id |-> 1, user_id |-> "A", full_name |-> "n1"],
      [id |-> 2, user_id |-> "B", full_name |-> "n1"],
      [id |-> 3, user_id |-> "C", full_name |-> "n1"],
      [id |-> 4, user_id |-> "D", full_name |-> "n1"] }

ApiInit ==
    /\ auth_users = Principals
    /\ profiles = InitialProfiles
    /\ nextProfileId = 5
    /\ lastCall = NoCall
    /\ reg = [c \in Dashboards |-> IdleReg]

\* Trigger on_auth_user_created: handle_new_user, in the transaction that
\* inserts NEW into auth.users. SECURITY DEFINER: no policy applies to it.
handle_new_user_profiles(id, full_name) ==
    profiles \cup {[id |-> nextProfileId, user_id |-> id, full_name |-> full_name]}

\* A plausible slip: the trigger's default role is the highest one.
handle_new_user_roles_Admin(id) ==
    user_roles \cup
        {[id |-> nextRoleId, user_id |-> id, role |-> "admin", approved_by |-> NULL]}

\* A plausible slip: the trigger creates the profile only.
handle_new_user_roles_Skipped(id) == user_roles

handle_new_user_roles(id) ==
    user_roles \cup
        {[id |-> nextRoleId, user_id |-> id, role |-> "user", approved_by |-> NULL]}

\* INSERT INTO auth.users: the row, and what its trigger inserts, in one step.
CreateUser(p, full_name) ==
    /\ p \notin auth_users
    /\ auth_users' = auth_users \cup {p}
    /\ profiles' = handle_new_user_profiles(p, full_name)
    /\ nextProfileId' = nextProfileId + 1
    /\ user_roles' = handle_new_user_roles(p)
    /\ nextRoleId' = nextRoleId + 1

\* signUp of AuthProvider (part_000): a new principal registers.
signUp(p, full_name) ==
    /\ CreateUser(p, full_name)
    /\ lastCall' = NoCall
    /\ UNCHANGED <<agent_applications, nextAppId, now, applications, call, reg>>
    /\ UNCHANGED authVars

\* INSERT INTO user_roles (user_id, role) by actor, through the query API.
ApiInsertRole(actor, target, _role) ==
    /\ nextRoleId <= MaxRoleId
    /\ target \in auth_users
    /\ IF InsertRoleError(actor, target, _role, FALSE) = "none"
       THEN /\ user_roles' = user_roles \cup
                 {[id |-> nextRoleId, user_id |-> target, role |-> _role,
                   approved_by |-> actor]}
            /\ nextRoleId' = nextRoleId + 1
       ELSE UNCHANGED <<user_roles, nextRoleId>>
    /\ lastCall' = Called(actor, "user_roles", "insert", user_roles' \ user_roles)
    /\ UNCHANGED <<agent_applications, nextAppId, now, applications, call,
                   auth_users, profiles, nextProfileId, reg>>
    /\ UNCHANGED authVars

\* UPDATE user_roles SET role = _role WHERE id = rowId, by actor: the USING
\* policy picks the rows; UNIQUE (user_id, role) rejects a second equal pair.
UpdatedRoles(actor, rowId, _role) ==
    LET hit == { r \in user_roles : r.id = rowId /\ CanUpdateRole(actor, r) }
        clash == \E r \in hit : \E o \in user_roles :
                    o.id # r.id /\ o.user_id = r.user_id /\ o.role = _role
    IN  IF clash THEN user_roles
        ELSE { IF r \in hit THEN [r EXCEPT !.role = _role] ELSE r : r \in user_roles }

ApiUpdateRole(actor, rowId, _role) ==
    /\ \E r \in user_roles : r.id = rowId
    /\ user_roles' = UpdatedRoles(actor, rowId, _role)
    /\ lastCall' = Called(actor, "user_roles", "update", user_roles' \ user_roles)
    /\ UNCHANGED <<agent_applications, nextRoleId, nextAppId, now, applications,
                   call, auth_users, profiles, nextProfileId, reg>>
    /\ UNCHANGED authVars

\* DELETE FROM user_roles WHERE id = rowId, by actor.
DeletedRoles(actor, rowId) ==
    { r \in user_roles : ~(r.id = rowId /\ CanDeleteRole(actor, r)) }

ApiDeleteRole(actor, rowId) ==
    /\ \E r \in user_roles : r.id = rowId
    /\ user_roles' = DeletedRoles(actor, rowId)
    /\ lastCall' = Called(actor, "user_roles", "delete", user_roles \ user_roles')
    /\ UNCHANGED <<agent_applications, nextRoleId, nextAppId, now, applications,
                   call, auth_users, profiles, nextProfileId, reg>>
    /\ UNCHANGED authVars

\* SELECT * FROM user_roles, by actor.
SelectRoles(actor) == { r \in user_roles : CanSelectRole(actor, r) }

ApiSelectRoles(actor) ==
    /\ lastCall' = Called(actor, "user_roles", "select", SelectRoles(actor))
    /\ UNCHANGED <<storeVars, authVars, auth_users, profiles, nextProfileId, reg>>

\* handleRegisterAgent up to its second await: supabase.auth.signUp creates
\* the principal. Where sign-ups need no e-mail confirmation the client is
\* signed in as the new principal from here on; otherwise it stays the admin's.
RegisterSignUp(c, p, full_name, confirmEmail) ==
    /\ reg[c].pc = "idle"
    /\ CreateUser(p, full_name)
    /\ reg' = [reg EXCEPT ![c] =
                 [pc |-> "insert", newUser |-> p,
                  uid |-> IF confirmEmail THEN c ELSE p,
                  roleError |-> "none", toast |-> "none"]]
    /\ lastCall' = NoCall
    /\ UNCHANGED <<agent_applications, nextAppId, now, applications, call>>
    /\ UNCHANGED authVars

\* handleRegisterAgent from the insert of the agent role to its end.
RegisterInsert(c, netFail) ==
    /\ reg[c].pc = "insert"
    /\ LET err == InsertRoleError(reg[c].uid, reg[c].newUser, "agent", netFail)
       IN  /\ IF err = "none"
              THEN /\ user_roles' = user_roles \cup
                        {[id |-> nextRoleId, user_id |-> reg[c].newUser,
                          role |-> "agent", approved_by |-> c]}
                   /\ nextRoleId' = nextRoleId + 1
              ELSE UNCHANGED <<user_roles, nextRoleId>>
           /\ reg' = [reg EXCEPT ![c].pc = "idle", ![c].roleError = err,
                         ![c].toast =
                            IF err # "none" /\ ~MessageIncludesDuplicate(err)
                            THEN "error" ELSE "success"]
    /\ lastCall' = NoCall
    /\ UNCHANGED <<agent_applications, nextAppId, now, applications, call,
                   auth_users, profiles, nextProfileId>>
    /\ UNCHANGED authVars

\* CHECK (status IN ('pending', 'approved', 'rejected'))
Statuses == {"pending", "approved", "rejected"}

\* INSERT INTO agent_applications (user_id, status, ...) VALUES (uid, status,
\* ...), by actor: the statement may name status; the columns it does not name
\* take their defaults.
InsertedApplication(id, uid, status) ==
    [NewApplication(id, uid) EXCEPT !.status = status]

ApiInsertApplication(actor, uid, status) ==
    /\ nextAppId <= MaxApps
    /\ uid \in auth_users
    /\ status \in Statuses
    /\ IF CanInsertApplication(actor, InsertedApplication(nextAppId, uid, status))
       THEN /\ agent_applications' =
                 agent_applications \cup {InsertedApplication(nextAppId, uid, status)}
            /\ nextAppId' = nextAppId + 1
       ELSE UNCHANGED <<agent_applications, nextAppId>>
    /\ lastCall' = Called(actor, "agent_applications", "insert",
                           agent_applications' \ agent_applications)
    /\ UNCHANGED <<user_roles, nextRoleId, now, applications, call,
                   auth_users, profiles, nextProfileId, reg>>
    /\ UNCHANGED authVars

\* SELECT * FROM agent_applications, by actor.
SelectApplications(actor) ==
    { r \in agent_applications : CanSelectApplication(actor, r) }

ApiSelectApplications(actor) ==
    /\ lastCall' = Called(actor, "agent_applications", "select",
                           SelectApplications(actor))
    /\ UNCHANGED <<storeVars, authVars, auth_users, profiles, nextProfileId, reg>>

\* DELETE FROM agent_applications WHERE id = rowId, by actor.
DeletedApplications(actor, rowId) ==
    { r \in agent_applications : ~(r.id = rowId /\ CanDeleteApplication(actor, r)) }

ApiDeleteApplication(actor, rowId) ==
    /\ \E r \in agent_applications : r.id = rowId
    /\ agent_applications' = DeletedApplications(actor, rowId)
    /\ lastCall' = Called(actor, "agent_applications", "delete",
                           agent_applications \ agent_applications')
    /\ UNCHANGED <<user_roles, nextRoleId, nextAppId, now, applications, call,
                   auth_users, profiles, nextProfileId, reg>>
    /\ UNCHANGED authVars

\* INSERT INTO profiles (user_id, full_name), by actor: WITH CHECK, then the
\* UNIQUE constraint on user_id.
ApiInsertProfile(actor, uid, full_name) ==
    /\ uid \in auth_users
    /\ IF /\ CanInsertProfile(actor, [user_id |-> uid, full_name |-> full_name])
          /\ ~\E r \in profiles : r.user_id = uid
       THEN /\ profiles' = profiles \cup
                 {[id |-> nextProfileId, user_id |-> uid, full_name |-> full_name]}
            /\ nextProfileId' = nextProfileId + 1
       ELSE UNCHANGED <<profiles, nextProfileId>>
    /\ lastCall' = Called(actor, "profiles", "insert", profiles' \ profiles)
    /\ UNCHANGED <<storeVars, authVars, auth_users, reg>>

\* UPDATE profiles SET full_name = ... WHERE id = rowId, by actor.
UpdatedProfiles(actor, rowId, full_name) ==
    { IF r.id = rowId /\ CanUpdateProfile(actor, r)
      THEN [r EXCEPT !.full_name = full_name]
      ELSE r : r \in profiles }

ApiUpdateProfile(actor, rowId, full_name) ==
    /\ \E r \in profiles : r.id = rowId
    /\ profiles' = UpdatedProfiles(actor, rowId, full_name)
    /\ lastCall' = Called(actor, "profiles", "update", profiles' \ profiles)
    /\ UNCHANGED <<storeVars, authVars, auth_users, nextProfileId, reg>>

\* DELETE FROM profiles WHERE id = rowId, by actor.
DeletedProfiles(actor, rowId) ==
    { r \in profiles : ~(r.id = rowId /\ CanDeleteProfile(actor, r)) }

ApiDeleteProfile(actor, rowId) ==
    /\ \E r \in profiles : r.id = rowId
    /\ profiles' = DeletedProfiles(actor, rowId)
    /\ lastCall' = Called(actor, "profiles", "delete", profiles \ profiles')
    /\ UNCHANGED <<storeVars, authVars, auth_users, nextProfileId, reg>>

\* SELECT * FROM profiles, by actor.
SelectProfiles(actor) == { r \in profiles : CanSelectProfile(actor, r) }

ApiSelectProfiles(actor) ==
    /\ lastCall' = Called(actor, "profiles", "select", SelectProfiles(actor))
    /\ UNCHANGED <<storeVars, authVars, auth_users, profiles, nextProfileId, reg>>

\* The rows of user_roles the direct queries name.
RoleRowIds == { r.id : r \in { x \in user_roles : x.user_id \in ApiTargets } }

\* The principals that use the dashboard's registration form.
Registrars == {"B"}

PolicyNext ==
    \/ \E p \in Newcomers, n \in Names : signUp(p, n)
    \/ \E c \in Registrars, p \in Newcomers, n \in Names, confirmEmail \in BOOLEAN :
         RegisterSignUp(c, p, n, confirmEmail)
    \/ \E c \in Registrars, netFail \in BOOLEAN : RegisterInsert(c, netFail)
    \/ \E actor \in ApiActors, target \in ApiTargets, r \in Roles :
         ApiInsertRole(actor, target, r)
    \/ \E actor \in ApiActors, rowId \in RoleRowIds, r \in Roles :
         ApiUpdateRole(actor, rowId, r)
    \/ \E actor \in ApiActors, rowId \in RoleRowIds : ApiDeleteRole(actor, rowId)
    \/ \E actor \in ApiActors : ApiSelectRoles(actor)

\* Every way a role assignment is written: the sign-up trigger, the two
\* dashboard handlers (two admins review, so one application can be approved
\* twice), and an admin's direct inserts and updates.
Reviewers == {"B", "D"}

GrantNext ==
    \/ \E p \in Newcomers : signUp(p, "n1")
    \/ \E c \in Registrars, p \in Newcomers, confirmEmail \in BOOLEAN :
         RegisterSignUp(c, p, "n1", confirmEmail)
    \/ \E c \in Registrars : RegisterInsert(c, FALSE)
    \/ \E p \in Applicants : SubmitApplication(p)
    \/ \E c \in Reviewers : fetchApplications(c, FALSE)
    \/ \E c \in Reviewers : \E app \in applications[c] :
         ReviewUpdate(c, app, "approved", FALSE)
    \/ \E c \in Reviewers : ReviewInsert(c, FALSE)
    \/ \E actor \in ApiActors, target \in ApiTargets :
         ApiInsertRole(actor, target, "agent")
    \/ \E actor \in ApiActors, rowId \in RoleRowIds :
         ApiUpdateRole(actor, rowId, "agent")

\* DELETE FROM auth.users WHERE id = p. user_id of the three tables is ON
\* DELETE CASCADE; approved_by and reviewed_by reference auth.users with no ON
\* DELETE action, so a row of another principal that names p there makes the
\* statement fail.
DeleteRestricted(p) ==
    \/ \E r \in user_roles : r.user_id # p /\ r.approved_by = p
    \/ \E a \in agent_applications : a.user_id # p /\ a.reviewed_by = p

DeleteUser(p) ==
    /\ p \in auth_users
    /\ IF DeleteRestricted(p)
       THEN /\ UNCHANGED <<auth_users, user_roles, profiles, agent_applications>>
            /\ lastCall' = Called(NULL, "auth.users", "delete", {})
       ELSE /\ auth_users' = auth_users \ {p}
            /\ user_roles' = { r \in user_roles : r.user_id # p }
            /\ profiles' = { r \in profiles : r.user_id # p }
            /\ agent_applications' = { r \in agent_applications : r.user_id # p }
            /\ lastCall' = Called(NULL, "auth.users", "delete", {[id |-> p]})
    /\ UNCHANGED <<nextRoleId, nextAppId, now, applications, call,
                   nextProfileId, reg>>
    /\ UNCHANGED authVars

\* The principals whose accounts are deleted: an applicant and a reviewer.
Deleted == {"A", "B"}

\* Applications are submitted and reviewed while accounts are deleted.
AccountNext ==
    \/ \E p \in Applicants : SubmitApplication(p)
    \/ \E c \in Reviewers : fetchApplications(c, FALSE)
    \/ \E c \in Reviewers, action \in {"approved", "rejected"} :
         \E app \in applications[c] : ReviewUpdate(c, app, action, FALSE)
    \/ \E c \in Reviewers : ReviewInsert(c, FALSE)
    \/ \E p \in Deleted : DeleteUser(p)

\* The profiles the direct queries name.
ProfileRowIds == { r.id : r \in { x \in profiles : x.user_id \in ApiActors } }
ApplicationRowIds == { r.id : r \in agent_applications }

\* agent_applications and profiles reached directly, while admin is granted
\* to A and revoked again.
TableNext ==
    \/ \E actor \in ApiActors, uid \in ApiActors, status \in Statuses :
         ApiInsertApplication(actor, uid, status)
    \/ \E actor \in ApiActors : ApiSelectApplications(actor)
    \/ \E actor \in ApiActors, rowId \in ApplicationRowIds :
         ApiDeleteApplication(actor, rowId)
    \/ \E actor \in ApiActors, uid \in ApiActors, n \in Names :
         ApiInsertProfile(actor, uid, n)
    \/ \E actor \in ApiActors, rowId \in ProfileRowIds, n \in Names :
         ApiUpdateProfile(actor, rowId, n)
    \/ \E actor \in ApiActors, rowId \in ProfileRowIds : ApiDeleteProfile(actor, rowId)
    \/ \E actor \in ApiActors : ApiSelectProfiles(actor)
    \/ \E actor \in ApiActors, target \in ApiTargets :
         ApiInsertRole(actor, target, "admin")
    \/ \E actor \in ApiActors, rowId \in RoleRowIds : ApiDeleteRole(actor, rowId)

\* ------------------------------------------------------------ AuthProvider
MaxAuthEvents == 3   \* sign-ins, sign-outs and token refreshes in one behaviour

\* The principals that sign in on this client.
AuthUsers == {"A", "B"}

NoSession == [user |-> NULL, token |-> 0]

\* newSession?.user ?? null
UserOf(s) == s.user

RolePrecedence(r) == IF r = "admin" THEN 1 ELSE IF r = "agent" THEN 2 ELSE 3

\* get_user_role: the held role that sorts first, NULL when none is held.
get_user_role(_user_id) ==
    LET held == { r.role : r \in { x \in user_roles : x.user_id = _user_id } }
    IN  IF held = {} THEN NULL
        ELSE CHOOSE r \in held : \A q \in held : RolePrecedence(r) <= RolePrecedence(q)

\* fetchUserRole: the role it stores, from the rpc's outcome.
\* outcome "ok": {data, error: null}; "error": {error}; "throw": the rpc throws.
\* A plausible slip: a failed fetch stores nothing usable.
FetchedRole_Unset(userId, outcome) ==
    IF outcome = "ok" /\ get_user_role(userId) # NULL
    THEN get_user_role(userId)
    ELSE NULL

FetchedRole(userId, outcome) ==
    IF outcome = "ok" /\ get_user_role(userId) # NULL
    THEN get_user_role(userId)
    ELSE "user"

\* What supabase.rpc('get_user_role') gave fetchUserRole: its outcome, and
\* `data` when there is one.
RpcAnswer(userId, outcome) ==
    [outcome |-> outcome,
     data |-> IF outcome = "ok" THEN get_user_role(userId) ELSE NULL]

NoAnswer == [outcome |-> NULL, data |-> NULL]

NoFetch == [seq |-> 0, result |-> NULL]

AuthInit ==
    /\ user = NULL
    /\ session = NoSession
    /\ role = NULL
    /\ loading = TRUE
    /\ phase = "unmounted"
    /\ authSession = NoSession
    /\ authEvents = 0
    /\ notifications = <<>>
    /\ getSession = [pc |-> "idle", data |-> NoSession]
    /\ timers = <<>>
    /\ fetches = {}
    /\ fetchSeq = 0
    /\ roleWriter = 0
    /\ latestDone = NoFetch
    /\ staleOut = FALSE
    /\ fetched = NoAnswer

\* A notification reaches the callback only while the subscription exists.
Notify(event, newSession) ==
    IF phase = "mounted"
    THEN Append(notifications, [event |-> event, session |-> newSession])
    ELSE notifications

\* signIn: the authentication subsystem starts a session for p.
signIn(p) ==
    /\ authEvents < MaxAuthEvents
    /\ authSession = NoSession
    /\ authEvents' = authEvents + 1
    /\ authSession' = [user |-> p, token |-> authEvents + 1]
    /\ notifications' = Notify("SIGNED_IN", authSession')
    /\ UNCHANGED <<user, session, role, loading, phase, getSession, timers,
                   fetches, fetchSeq, roleWriter, latestDone, staleOut, fetched>>
    /\ UNCHANGED <<storeVars, apiVars>>

\* signOut: the authentication subsystem ends the session.
signOut ==
    /\ authEvents < MaxAuthEvents
    /\ authSession # NoSession
    /\ authEvents' = authEvents + 1
    /\ authSession' = NoSession
    /\ notifications' = Notify("SIGNED_OUT", NoSession)
    /\ UNCHANGED <<user, session, role, loading, phase, getSession, timers,
                   fetches, fetchSeq, roleWriter, latestDone, staleOut, fetched>>
    /\ UNCHANGED <<storeVars, apiVars>>

\* The authentication subsystem renews the session's token.
TokenRefreshed ==
    /\ authEvents < MaxAuthEvents
    /\ authSession # NoSession
    /\ authEvents' = authEvents + 1
    /\ authSession' = [authSession EXCEPT !.token = authEvents + 1]
    /\ notifications' = Notify("TOKEN_REFRESHED", authSession')
    /\ UNCHANGED <<user, session, role, loading, phase, getSession, timers,
                   fetches, fetchSeq, roleWriter, latestDone, staleOut, fetched>>
    /\ UNCHANGED <<storeVars, apiVars>>

\* useEffect: subscribe, then start the initial session query. The
\* subscription may announce the current session (INITIAL_SESSION).
Mount(announce) ==
    /\ phase = "unmounted"
    /\ phase' = "mounted"
    /\ notifications' =
         IF announce
         THEN <<[event |-> "INITIAL_SESSION", session |-> authSession]>>
         ELSE <<>>
    /\ getSession' = [pc |-> "pending", data |-> NoSession]
    /\ UNCHANGED <<user, session, role, loading, authSession, authEvents, timers,
                   fetches, fetchSeq, roleWriter, latestDone, staleOut, fetched>>
    /\ UNCHANGED <<storeVars, apiVars>>

\* A plausible slip: the callback never schedules the role fetch.
ScheduledTimers_Dropped(newUser) == timers

\* else if (newSession?.user) setTimeout(() => fetchUserRole(...), 0)
ScheduledTimers(newUser) ==
    IF newUser # NULL THEN Append(timers, newUser) ELSE timers

\* A plausible slip: the callbacks forget setLoading(false).
LoadingAfterTurn_Kept == loading

\* setLoading(false), the last statement of the notification callback and of
\* the .then callback of getSession().
LoadingAfterTurn == FALSE

\* A plausible slip: the signed-out branch forgets setRole(null).
SignedOutRole_Kept == role

\* if (event === "SIGNED_OUT") ... setRole(null)
SignedOutRole == NULL

\* The onAuthStateChange callback, for the oldest undelivered notification.
OnAuthStateChange ==
    /\ phase = "mounted"
    /\ notifications # <<>>
    /\ LET n == Head(notifications)
           newUser == UserOf(n.session)
       IN  /\ notifications' = Tail(notifications)
           /\ IF n.event = "SIGNED_OUT"
              THEN /\ user' = NULL
                   /\ session' = NoSession
                   /\ role' = SignedOutRole
                   /\ roleWriter' = 0
                   /\ fetched' = NoAnswer
                   /\ staleOut' = (fetches # {})
                   /\ timers' = timers
              ELSE /\ user' = newUser
                   /\ session' = n.session
                   /\ role' = role
                   /\ roleWriter' = roleWriter
                   /\ fetched' = fetched
                   /\ staleOut' = FALSE
                   /\ timers' = ScheduledTimers(newUser)
           /\ loading' = LoadingAfterTurn
    /\ UNCHANGED <<phase, authSession, authEvents, getSession, fetches, fetchSeq,
                   latestDone>>
    /\ UNCHANGED <<storeVars, apiVars>>

\* The deferred callback of setTimeout(..., 0): it calls fetchUserRole.
TimerFires ==
    /\ timers # <<>>
    /\ timers' = Tail(timers)
    /\ fetchSeq' = fetchSeq + 1
    /\ fetches' = fetches \cup {[seq |-> fetchSeq + 1, userId |-> Head(timers)]}
    /\ UNCHANGED <<user, session, role, loading, phase, authSession, authEvents,
                   notifications, getSession, roleWriter, latestDone, staleOut, fetched>>
    /\ UNCHANGED <<storeVars, apiVars>>

\* supabase.auth.getSession() reads the current session.
GetSessionResolves ==
    /\ getSession.pc = "pending"
    /\ getSession' = [pc |-> "resolved", data |-> authSession]
    /\ UNCHANGED <<user, session, role, loading, phase, authSession, authEvents,
                   notifications, timers, fetches, fetchSeq, roleWriter,
                   latestDone, staleOut, fetched>>
    /\ UNCHANGED <<storeVars, apiVars>>

\* The .then callback of getSession().
GetSessionThen ==
    /\ getSession.pc = "resolved"
    /\ getSession' = [getSession EXCEPT !.pc = "done"]
    /\ session' = getSession.data
    /\ user' = UserOf(getSession.data)
    /\ IF UserOf(getSession.data) # NULL
       THEN /\ fetchSeq' = fetchSeq + 1
            /\ fetches' = fetches \cup
                 {[seq |-> fetchSeq + 1, userId |-> UserOf(getSession.data)]}
       ELSE UNCHANGED <<fetches, fetchSeq>>
    /\ loading' = LoadingAfterTurn
    /\ UNCHANGED <<role, phase, authSession, authEvents, notifications, timers,
                   roleWriter, latestDone, staleOut, fetched>>
    /\ UNCHANGED <<storeVars, apiVars>>

\* fetchUserRole after its await: the rpc has answered.
FetchCompletes(f, outcome) ==
    /\ f \in fetches
    /\ fetches' = fetches \ {f}
    /\ role' = FetchedRole(f.userId, outcome)
    /\ roleWriter' = f.seq
    /\ latestDone' = IF f.seq > latestDone.seq
                     THEN [seq |-> f.seq, result |-> FetchedRole(f.userId, outcome)]
                     ELSE latestDone
    /\ fetched' = RpcAnswer(f.userId, outcome)
    /\ UNCHANGED <<user, session, loading, phase, authSession, authEvents,
                   notifications, getSession, timers, fetchSeq, staleOut>>
    /\ UNCHANGED <<storeVars, apiVars>>

\* The effect's cleanup: listener.subscription.unsubscribe().
Teardown ==
    /\ phase = "mounted"
    /\ phase' = "torn"
    /\ notifications' = <<>>
    /\ UNCHANGED <<user, session, role, loading, authSession, authEvents,
                   getSession, timers, fetches, fetchSeq, roleWriter, latestDone,
                   staleOut, fetched>>
    /\ UNCHANGED <<storeVars, apiVars>>

AuthNext ==
    \/ \E p \in AuthUsers : signIn(p)
    \/ signOut
    \/ TokenRefreshed
    \/ \E announce \in BOOLEAN : Mount(announce)
    \/ OnAuthStateChange
    \/ TimerFires
    \/ GetSessionResolves
    \/ GetSessionThen
    \/ \E f \in fetches, outcome \in {"ok", "error", "throw"} : FetchCompletes(f, outcome)
    \/ Teardown

\* An admin that does not use this client revokes a role of one of its users.
AuthRoleNext ==
    \/ AuthNext
    \/ \E rowId \in RoleRowIds : ApiDeleteRole("D", rowId)

\* The operations of the client: signUp, signIn and signOut of AuthProvider,
\* the submission of an application, and the dashboard's two handlers.
ClientNext ==
    \/ \E p \in Newcomers : signUp(p, "n1")
    \/ \E p \in Applicants : signIn(p)
    \/ signOut
    \/ \E p \in Applicants : SubmitApplication(p)
    \/ \E c \in Reviewers : fetchApplications(c, FALSE)
    \/ \E c \in Reviewers, action \in {"approved", "rejected"} :
         \E app \in applications[c] : ReviewUpdate(c, app, action, FALSE)
    \/ \E c \in Reviewers : ReviewInsert(c, FALSE)
    \/ \E c \in Registrars, p \in Newcomers, confirmEmail \in BOOLEAN :
         RegisterSignUp(c, p, "n1", confirmEmail)
    \/ \E c \in Registrars : RegisterInsert(c, FALSE)

\* ---------------------------------------------------------- specifications
Init == StoreInit /\ AuthInit /\ ApiInit

Spec == Init /\ [][StoreNext]_vars

AuthSpec == Init /\ [][AuthNext]_vars

AuthRoleSpec == Init /\ [][AuthRoleNext]_vars

PolicySpec == Init /\ [][PolicyNext]_vars

GrantSpec == Init /\ [][GrantNext]_vars

TableSpec == Init /\ [][TableNext]_vars

AccountSpec == Init /\ [][AccountNext]_vars

ClientSpec == Init /\ [][ClientNext]_vars

\* The event loop runs every deferred callback, and every issued rpc answers.
AuthFairSpec ==
    /\ AuthSpec
    /\ WF_vars(TimerFires)
    /\ WF_vars(\E f \in fetches, outcome \in {"ok", "error", "throw"} :
                  FetchCompletes(f, outcome))

\* ------------------------------------------------------------------ claims

\* C1: in every state of the store, including the state between the two writes
\* of one approval and the state after a failed approval, an application with
\* status approved has an (applicant, agent) role assignment.
ApprovedImpliesAgentRole ==
    \A a \in agent_applications :
        a.status = "approved" => has_role(a.user_id, "agent")

\* C2: when the agent-role insert of an approval fails for a reason other than
\* a duplicate key, the application row is as it was before the action and an
\* error is shown to the admin.
FailedGrantAbortsApproval ==
    \A c \in Dashboards :
        call[c].roleError \notin {"none", "duplicate"}
            => /\ RowOfApplication(call[c].appId) = call[c].before
               /\ call[c].toast = "error"

\* C3: an application that has reached approved or rejected never changes
\* status again, whatever review calls follow.
TerminalStatusIsFinal ==
    [][\A a \in agent_applications :
          a.status \in {"approved", "rejected"}
              => \A b \in agent_applications' : b.id = a.id => b.status = a.status]_vars

\* C4: a review step taken by a principal that does not hold admin at the time
\* of the access leaves every application row unchanged and creates no role
\* assignment.
ReviewStepBy(c) ==
    \/ \E app \in applications[c], action \in {"approved", "rejected"},
          netFail \in BOOLEAN : ReviewUpdate(c, app, action, netFail)
    \/ \E netFail \in BOOLEAN : ReviewInsert(c, netFail)

NonAdminReviewChangesNothing ==
    [][\A c \in Dashboards :
          (~has_role(c, "admin") /\ ReviewStepBy(c))
              => /\ agent_applications' = agent_applications
                 /\ user_roles' = user_roles]_vars

\* C4 witness: a principal without admin has run an approval to its end; the
\* policy hid the row from its update, and the application is still pending.
NonAdminApprovalDenied ==
    \E c \in Dashboards :
        /\ ~has_role(c, "admin")
        /\ call[c].action = "approved"
        /\ call[c].denied
        /\ call[c].roleError = "rls"
        /\ RowOfApplication(call[c].appId).status = "pending"
        /\ ~has_role(call[c].userId, "agent")

\* C5: a review call whose status update the policy engine blocked is never
\* reported to the caller as a success.
BlockedReviewNotReportedAsSuccess ==
    \A c \in Dashboards : call[c].toast = "success" => ~call[c].denied

\* Every callback the context is waiting for has run.
Quiescent ==
    /\ notifications = <<>>
    /\ timers = <<>>
    /\ fetches = {}
    /\ getSession.pc = "done"

\* C6: when a signed-out notification was handled while a role fetch was in
\* flight, the context ends with principal and effective role both null once
\* every pending callback has run.
SignOutDiscardsStaleFetch ==
    (Quiescent /\ staleOut) => (user = NULL /\ role = NULL)

\* C7: once all overlapping role fetches have completed, the role they left is
\* the result of the fetch that was issued last.
LatestIssuedFetchWins ==
    (fetches = {} /\ roleWriter # 0) => role = latestDone.result

\* C8: after the subscription is unsubscribed, user, session, role and loading
\* are never written again.
NoWriteAfterTeardown ==
    [][phase = "torn" => UNCHANGED <<user, session, role, loading>>]_vars

\* C9: once every pending callback has run, the context's session and
\* principal are the authentication subsystem's current session and principal.
ContextConvergesToAuthSession ==
    (Quiescent /\ phase = "mounted")
        => (session = authSession /\ user = UserOf(authSession))

\* C10: whenever the principal is non-null the effective role eventually
\* becomes non-null, given that deferred callbacks run and fetches complete.
RoleEventuallyKnown == (user # NULL) ~> (role # NULL)

\* C10 witness: a role fetch issued for a signed-in principal has completed
\* and stored a role while that principal is the context's principal.
RoleFetchedForPrincipal ==
    /\ user # NULL
    /\ role # NULL
    /\ roleWriter # 0
    /\ fetches = {}
    /\ timers = <<>>

\* C11: a role fetch that fails - the rpc answers with an error, answers with
\* no role, or throws - stores the role user, and touches nothing else of the
\* context: the role is not left unset and the consumer is shown no error.
FailedFetchDefaultsToUser ==
    [][\A f \in fetches :
          (\/ FetchCompletes(f, "error")
           \/ FetchCompletes(f, "throw")
           \/ (FetchCompletes(f, "ok") /\ get_user_role(f.userId) = NULL))
              => /\ role' = "user"
                 /\ UNCHANGED <<user, session, loading>>]_vars

\* C11 witness: the rpc answered without error and without a role, for a
\* principal whose assignments were all revoked, and the context holds user.
NoRoleAnswerStoredAsUser ==
    /\ roleWriter # 0
    /\ fetched.outcome = "ok"
    /\ fetched.data = NULL
    /\ role = "user"

\* C12: the callback's handling of a signed-out notification leaves principal,
\* session and role null, schedules no deferred role fetch and starts none.
SignedOutClearsWithoutQuery ==
    [][(/\ notifications # <<>>
        /\ Head(notifications).event = "SIGNED_OUT"
        /\ OnAuthStateChange)
          => /\ user' = NULL
             /\ session' = NoSession
             /\ role' = NULL
             /\ UNCHANGED <<timers, fetches, fetchSeq>>]_vars

\* C12 witness: a signed-out notification was the last one handled, it came
\* while a role fetch was in flight, and the context is cleared.
SignedOutHandledDuringFetch ==
    /\ staleOut
    /\ notifications = <<>>
    /\ user = NULL
    /\ session = NoSession
    /\ role = NULL

\* C13: user_roles never holds two rows with the same (user_id, role),
\* whatever sign-ups, approvals (two admins approving one application
\* included), direct agent registrations and admin inserts and updates happen.
RoleAssignmentsUnique ==
    \A r1 \in user_roles, r2 \in user_roles :
        (r1.user_id = r2.user_id /\ r1.role = r2.role) => r1 = r2

\* C13 witness: an approval's insert of the agent role met the assignment a
\* first approval of the same application had written; there is still one.
SecondApprovalMetDuplicate ==
    \E c \in Reviewers :
        /\ call[c].roleError = "duplicate"
        /\ RowOfApplication(call[c].appId).status = "approved"
        /\ RowOfApplication(call[c].appId).reviewed_by = c
        /\ \E r \in user_roles :
              /\ r.user_id = call[c].userId
              /\ r.role = "agent"
              /\ r.approved_by \in Reviewers \ {c}

\* The rows of a table that belong to principal p.
RowsOf(table, p) == { r \in table : r.user_id = p }

\* C14: the step that creates a principal leaves it with exactly one profile
\* and exactly one role assignment, which is (principal, user).
NewPrincipalHasProfileAndUserRole ==
    [][\A p \in Newcomers :
          (p \notin auth_users /\ p \in auth_users')
              => /\ Cardinality(RowsOf(profiles', p)) = 1
                 /\ Cardinality(RowsOf(user_roles', p)) = 1
                 /\ \A r \in RowsOf(user_roles', p) : r.role = "user"]_vars

\* C14 witness: the newcomer exists, with one profile and the one assignment
\* the trigger gave it.
NewcomerCreated ==
    \E p \in Newcomers :
        /\ p \in auth_users
        /\ Cardinality(RowsOf(profiles, p)) = 1
        /\ Cardinality(RowsOf(user_roles, p)) = 1
        /\ has_role(p, "user")

\* C15: get_user_role gives admin to a principal that holds admin, else agent
\* to one that holds agent, else user - for every set of roles held, the empty
\* set included.
EffectiveRoleFollowsPrecedence ==
    \A p \in auth_users :
        get_user_role(p) = IF has_role(p, "admin") THEN "admin"
                           ELSE IF has_role(p, "agent") THEN "agent"
                           ELSE "user"

\* C16: get_user_role gives a role, user, for a principal that holds no role
\* assignment.
NoAssignmentStillGivesUser ==
    \A p \in auth_users :
        RowsOf(user_roles, p) = {} => get_user_role(p) = "user"

\* A direct write to user_roles by actor.
RoleWriteBy(actor) ==
    \/ \E target \in ApiTargets, r \in Roles : ApiInsertRole(actor, target, r)
    \/ \E rowId \in RoleRowIds, r \in Roles : ApiUpdateRole(actor, rowId, r)
    \/ \E rowId \in RoleRowIds : ApiDeleteRole(actor, rowId)

\* C17: an insert, update or delete on user_roles made by a principal that
\* does not hold admin when it is made - directly, or as the signed-in
\* principal of the registration form - leaves user_roles as it was.
RoleWritesNeedAdmin ==
    [][/\ \A actor \in ApiActors :
             (~has_role(actor, "admin") /\ RoleWriteBy(actor))
                 => user_roles' = user_roles
       /\ \A c \in Registrars :
             (/\ ~has_role(reg[c].uid, "admin")
              /\ \E netFail \in BOOLEAN : RegisterInsert(c, netFail))
                 => user_roles' = user_roles]_vars

\* C17 witness: a principal that was an admin and is one no longer has just
\* tried to give itself admin again, and nothing was written.
FormerAdminWriteDenied ==
    /\ lastCall.table = "user_roles"
    /\ lastCall.op = "insert"
    /\ lastCall.actor = "A"
    /\ lastCall.rows = {}
    /\ ~has_role("A", "admin")
    /\ \E r \in user_roles : r.approved_by = "A"

\* C18: a SELECT on user_roles returns the reader's own rows, and every row
\* when the reader holds admin.
RoleReadsOwnOrAll ==
    (lastCall.table = "user_roles" /\ lastCall.op = "select")
        => lastCall.rows = IF has_role(lastCall.actor, "admin")
                           THEN user_roles
                           ELSE RowsOf(user_roles, lastCall.actor)

\* C18 witness: a principal whose only assignment is admin has read the table
\* and got every row, other principals' rows among them.
SoleAdminReadsEveryRow ==
    /\ lastCall.table = "user_roles"
    /\ lastCall.op = "select"
    /\ { r.role : r \in RowsOf(user_roles, lastCall.actor) } = {"admin"}
    /\ lastCall.rows = user_roles
    /\ \E r \in lastCall.rows : r.user_id # lastCall.actor

\* C19: a SELECT on agent_applications returns to a principal without admin
\* only the applications it submitted, and an INSERT of an application whose
\* user_id is not the acting principal adds nothing.
ApplicationsOwnOrAdmin ==
    [][/\ (lastCall'.table = "agent_applications" /\ lastCall'.op = "select")
             => \A r \in lastCall'.rows :
                   \/ r.user_id = lastCall'.actor
                   \/ \E a \in user_roles' :
                         a.user_id = lastCall'.actor /\ a.role = "admin"
       /\ \A actor \in ApiActors, uid \in ApiActors :
             (actor # uid /\ \E status \in Statuses :
                                ApiInsertApplication(actor, uid, status))
                 => agent_applications' = agent_applications]_vars

\* C19 witness: a principal without admin has read agent_applications while
\* another principal's application was there, and did not get it.
OthersApplicationHidden ==
    /\ lastCall.table = "agent_applications"
    /\ lastCall.op = "select"
    /\ ~has_role(lastCall.actor, "admin")
    /\ \E r \in agent_applications :
          r.user_id # lastCall.actor /\ r \notin lastCall.rows

\* C20: a direct statement takes effect on no row for which no policy of its
\* command holds for the acting principal; a DELETE on profiles or on
\* agent_applications, which have no delete policy, removes nothing for
\* anyone, admins included.
DenyByDefault ==
    [][\A actor \in ApiActors :
          /\ \A rowId \in ApplicationRowIds :
                ApiDeleteApplication(actor, rowId)
                    => agent_applications' = agent_applications
          /\ \A rowId \in ProfileRowIds :
                ApiDeleteProfile(actor, rowId) => profiles' = profiles
          /\ \A rowId \in ProfileRowIds, n \in Names :
                (/\ ApiUpdateProfile(actor, rowId, n)
                 /\ \A r \in profiles : r.id = rowId => r.user_id # actor)
                    => profiles' = profiles
          /\ \A uid \in ApiActors, n \in Names :
                (actor # uid /\ ApiInsertProfile(actor, uid, n))
                    => profiles' = profiles]_vars

\* C20 witness: an admin has just tried to delete an application, and the
\* application is still there.
AdminDeleteOfApplicationDenied ==
    /\ lastCall.table = "agent_applications"
    /\ lastCall.op = "delete"
    /\ has_role(lastCall.actor, "admin")
    /\ lastCall.rows = {}
    /\ agent_applications # {}

\* C21: every row that enters agent_applications enters it pending, with
\* reviewed_by and reviewed_at unset, whatever insert the policy accepted.
ApplicationsStartPending ==
    [][\A r \in agent_applications' :
          (\A o \in agent_applications : o.id # r.id)
              => /\ r.status = "pending"
                 /\ r.reviewed_by = NULL
                 /\ r.reviewed_at = 0]_vars

\* C22: the write that takes an application out of pending sets reviewed_by
\* and reviewed_at, and after that neither of the two changes again.
ReviewStampSetOnceWithStatus ==
    [][\A a \in agent_applications : \A b \in agent_applications' :
          b.id = a.id =>
             /\ (a.status = "pending" /\ b.status # "pending")
                    => (b.reviewed_by # NULL /\ b.reviewed_at # 0)
             /\ a.reviewed_by # NULL
                    => (b.reviewed_by = a.reviewed_by /\ b.reviewed_at = a.reviewed_at)]_vars

\* C23: an approval of an application that is already approved, its applicant
\* holding agent, changes neither the application row nor user_roles, and ends
\* with the success toast.
SecondApprovalIsNoOp ==
    [][\A c \in Dashboards :
          /\ \A app \in applications[c] :
                (/\ RowOfApplication(app.id).status = "approved"
                 /\ has_role(app.user_id, "agent")
                 /\ ReviewUpdate(c, app, "approved", FALSE))
                    => agent_applications' = agent_applications
          /\ (/\ call[c].before.status = "approved"
              /\ has_role(call[c].userId, "agent")
              /\ ReviewInsert(c, FALSE))
                 => (user_roles' = user_roles /\ call'[c].toast = "success")]_vars

SuccessToastImpliesGrant ==
    [][\A c \in Dashboards :
          (\E netFail \in BOOLEAN : ReviewInsert(c, netFail)) /\ call'[c].toast = "success"
              => \E r \in user_roles' :
                    r.user_id = call[c].userId /\ r.role = "agent"]_vars

\* C25 witness: an approval has ended with the success toast after inserting
\* the agent role itself.
ApprovalSucceededWithGrant ==
    \E c \in Dashboards :
        /\ call[c].action = "approved"
        /\ call[c].toast = "success"
        /\ call[c].roleError = "none"
        /\ \E r \in user_roles :
              r.user_id = call[c].userId /\ r.role = "agent" /\ r.approved_by = c

\* C26: a deletion of a principal removes the principal and leaves no row of
\* user_roles, profiles or agent_applications that references it, be it as
\* user_id, as approved_by or as reviewed_by.
DeletionCascadesEverywhere ==
    [][\A p \in Deleted :
          DeleteUser(p)
              => /\ p \notin auth_users'
                 /\ \A r \in user_roles' : r.user_id # p /\ r.approved_by # p
                 /\ \A r \in profiles' : r.user_id # p
                 /\ \A a \in agent_applications' :
                       a.user_id # p /\ a.reviewed_by # p]_vars

\* C27: the insert of handleRegisterAgent writes the new principal's agent
\* assignment only if the principal the client is signed in as at that insert
\* holds admin, and the handler shows the success toast only if the new
\* principal holds agent then.
RegistrationNeedsAdmin ==
    [][\A c \in Registrars :
          (\E netFail \in BOOLEAN : RegisterInsert(c, netFail))
              => /\ user_roles' # user_roles => has_role(reg[c].uid, "admin")
                 /\ reg'[c].toast = "success"
                       => \E r \in user_roles' :
                             r.user_id = reg[c].newUser /\ r.role = "agent"]_vars

\* C27 witness: the form's sign-up left the client signed in as the new
\* principal, the insert was refused and the handler showed an error; the new
\* principal does not hold agent.
RegistrationInsertRefused ==
    \E c \in Registrars :
        /\ reg[c].pc = "idle"
        /\ reg[c].uid = reg[c].newUser
        /\ reg[c].roleError = "rls"
        /\ reg[c].toast = "error"
        /\ ~has_role(reg[c].newUser, "agent")

\* C28: the callback's handling of a notification other than signed-out that
\* carries a principal sets user and session in that step and issues no role
\* fetch in it; the fetch is left to a deferred callback that runs later.
RoleFetchDeferredPastDispatch ==
    [][(/\ notifications # <<>>
        /\ Head(notifications).event # "SIGNED_OUT"
        /\ UserOf(Head(notifications).session) # NULL
        /\ OnAuthStateChange)
          => /\ user' = UserOf(Head(notifications).session)
             /\ session' = Head(notifications).session
             /\ UNCHANGED <<fetches, fetchSeq>>
             /\ timers' = Append(timers, UserOf(Head(notifications).session))]_vars

\* C28 witness: a notification for a principal has been handled; user and
\* session are set and the role fetch for that principal is still a timer.
FetchWaitsAsTimer ==
    /\ timers # <<>>
    /\ user # NULL
    /\ session.user = user
    /\ timers[Len(timers)] = user
    /\ fetchSeq = 0

\* C29: loading is true at the start, stays true in every step that is neither
\* the notification callback nor the .then of the initial session query, is
\* false after either of the two, and once false is never true again.
LoadingFalseOnceAndForAll ==
    /\ loading = TRUE
    /\ [][/\ (OnAuthStateChange \/ GetSessionThen) => loading' = FALSE
          /\ (loading /\ ~(OnAuthStateChange \/ GetSessionThen)) => loading' = TRUE
          /\ loading = FALSE => loading' = FALSE]_vars

\* C29 witness: the first notification ended loading before the initial
\* session query had answered, and a sign-out and a role fetch have followed.
LoadingStaysFalse ==
    /\ loading = FALSE
    /\ getSession.pc = "pending"
    /\ roleWriter # 0
    /\ authSession = NoSession

\* C30: no step of the client's operations removes or changes a row of
\* user_roles or adds a row with role admin: the admins stay who they are and
\* every principal's roles only grow.
ClientOnlyAddsLesserRoles ==
    [][/\ user_roles \subseteq user_roles'
       /\ \A r \in user_roles' \ user_roles : r.role # "admin"
       /\ \A p \in Principals \cup Newcomers :
             (\E r \in user_roles' : r.user_id = p /\ r.role = "admin")
                 <=> has_role(p, "admin")]_vars

\* C30 witness: a sign-up through the registration form and an approval have
\* both added their rows; the admins are the two of the start.
ClientGrantsMade ==
    /\ has_role("A", "agent")
    /\ \E p \in Newcomers : has_role(p, "user") /\ has_role(p, "agent")
    /\ { r.user_id : r \in { x \in user_roles : x.role = "admin" } } = {"B", "D"}
    /\ InitialUserRoles \subseteq user_roles

====
